---------------------------- MODULE Spec2Model ----------------------------
(***************************************************************************)
(* Auto Trader backend: the request handlers of main.py and the schemas of *)
(* schemas.py over a document store with the collections car, dealer and   *)
(* lead.                                                                   *)
(*                                                                         *)
(* Values are tagged records, so that a Python None, str, int, float,      *)
(* date, list, URL and ObjectId stay distinct:                             *)
(*   NONE, Str(<<chars>>), IntV(n), Float(whole, tenths), Date(y, m, d),    *)
(*   List(<<values>>), Url("..."), Oid(n).                                 *)
(* A str the program looks inside (make, model, a date's text, an          *)
(* identifier) is the sequence of its characters, any other str a TLA+     *)
(* string; a float is held in tenths.                                      *)
(* A JSON object, a schema instance and a stored document are functions    *)
(* from field names to values.                                             *)
(***************************************************************************)
EXTENDS Integers, Sequences, FiniteSets, TLC

VARIABLES
    db,        \* the store: collection name -> sequence of documents, in insertion order
    nextOid,   \* the store's identifier generator
    seeds,     \* the POST /api/cars/seed requests started so far, each with its progress
    posted,    \* history: the POST /api/cars requests answered 200, [car, id]
    resp       \* what the last step answered: a response, or NoResponse when the
               \* step was a store operation of a request that is still running

vars == <<db, nextOid, seeds, posted, resp>>

-----------------------------------------------------------------------------
(* Values *)

NONE == [none |-> TRUE]
Str(s) == [str |-> s]
IntV(n) == [int |-> n]
Float(whole, tenths) == [num |-> whole * 10 + tenths]
Date(y, m, d) == [date |-> <<y, m, d>>]
List(l) == [list |-> l]
Url(u) == [url |-> u]
Oid(n) == [oid |-> n]

IsNone(v) == "none" \in DOMAIN v
IsStr(v) == "str" \in DOMAIN v
IsInt(v) == "int" \in DOMAIN v
IsNum(v) == "num" \in DOMAIN v
IsDate(v) == "date" \in DOMAIN v
IsList(v) == "list" \in DOMAIN v
IsUrl(v) == "url" \in DOMAIN v
IsOid(v) == "oid" \in DOMAIN v

\* A JSON number given for a float field: an int is widened to a float.
AsFloat(v) == IF IsInt(v) THEN Float(v.int, 0) ELSE v

Range(s) == {s[i] : i \in 1..Len(s)}

Digits == <<"0", "1", "2", "3", "4", "5", "6", "7", "8", "9">>
HexChars == <<"0", "1", "2", "3", "4", "5", "6", "7", "8", "9",
              "a", "b", "c", "d", "e", "f">>
HexUpper == <<"0", "1", "2", "3", "4", "5", "6", "7", "8", "9",
              "A", "B", "C", "D", "E", "F">>
LowerCase == <<"a", "b", "c", "d", "e", "f", "g", "h", "i", "j", "k", "l", "m",
               "n", "o", "p", "q", "r", "s", "t", "u", "v", "w", "x", "y", "z">>
UpperCase == <<"A", "B", "C", "D", "E", "F", "G", "H", "I", "J", "K", "L", "M",
               "N", "O", "P", "Q", "R", "S", "T", "U", "V", "W", "X", "Y", "Z">>

IndexOf(seq, c) == CHOOSE i \in 1..Len(seq) : seq[i] = c

\* The character folded to lower case (regex option "i").
Lower(c) == IF c \in Range(UpperCase) THEN LowerCase[IndexOf(UpperCase, c)] ELSE c

-----------------------------------------------------------------------------
(* datetime.date: parsing a request's ISO text, and date.isoformat() *)

IsDigit(c) == c \in Range(Digits)
DigitVal(c) == IndexOf(Digits, c) - 1

RECURSIVE ParseNat(_)
ParseNat(s) ==
    IF s = <<>> THEN 0
    ELSE 10 * ParseNat(SubSeq(s, 1, Len(s) - 1)) + DigitVal(s[Len(s)])

RECURSIVE Pad(_, _)
Pad(n, w) == IF w = 0 THEN <<>> ELSE Pad(n \div 10, w - 1) \o <<Digits[(n % 10) + 1]>>

IsLeap(y) == (y % 4 = 0 /\ y % 100 # 0) \/ y % 400 = 0
DaysInMonth(y, m) ==
    IF m = 2 THEN (IF IsLeap(y) THEN 29 ELSE 28)
    ELSE IF m \in {4, 6, 9, 11} THEN 30 ELSE 31

\* "YYYY-MM-DD" of a calendar day.
IsIsoDate(s) ==
    /\ Len(s) = 10
    /\ s[5] = "-" /\ s[8] = "-"
    /\ \A i \in {1, 2, 3, 4, 6, 7, 9, 10} : IsDigit(s[i])
    /\ LET y == ParseNat(SubSeq(s, 1, 4))
           m == ParseNat(SubSeq(s, 6, 7))
           d == ParseNat(SubSeq(s, 9, 10))
       IN  y >= 1 /\ m \in 1..12 /\ d \in 1..DaysInMonth(y, m)

DateFromIso(s) ==
    Date(ParseNat(SubSeq(s, 1, 4)), ParseNat(SubSeq(s, 6, 7)), ParseNat(SubSeq(s, 9, 10)))

isoformat(v) ==
    Str(Pad(v.date[1], 4) \o <<"-">> \o Pad(v.date[2], 2) \o <<"-">> \o Pad(v.date[3], 2))

-----------------------------------------------------------------------------
(* bson.ObjectId: 12 bytes, written as 24 hexadecimal characters *)

OidLen == 24

IsHex(c) == c \in Range(HexChars) \/ c \in Range(HexUpper)
HexVal(c) == IF c \in Range(HexChars) THEN IndexOf(HexChars, c) - 1
             ELSE IndexOf(HexUpper, c) - 1

RECURSIVE FromHex(_)
FromHex(s) ==
    IF s = <<>> THEN 0
    ELSE 16 * FromHex(SubSeq(s, 1, Len(s) - 1)) + HexVal(s[Len(s)])

RECURSIVE ToHex(_, _)
ToHex(n, w) == IF w = 0 THEN <<>> ELSE ToHex(n \div 16, w - 1) \o <<HexChars[(n % 16) + 1]>>

\* str(ObjectId)
ObjectIdStr(o) == ToHex(o.oid, OidLen)

\* ObjectId(oid) accepting lower-case digits only
ObjectIdValidLowerOnly(s) == Len(s) = OidLen /\ \A i \in 1..Len(s) : s[i] \in Range(HexChars)

\* ObjectId(oid) of a str: the identifier, or InvalidId.
ObjectIdValid(s) == Len(s) = OidLen /\ \A i \in 1..Len(s) : IsHex(s[i])
ObjectId(s) == Oid(FromHex(s))

\* validate_object_id: the parsed identifier, or HTTP 400.
validate_object_id(oid) ==
    IF ObjectIdValid(oid)
    THEN [ok |-> TRUE, value |-> ObjectId(oid)]
    ELSE [ok |-> FALSE, status |-> 400, detail |-> "Invalid id format"]

-----------------------------------------------------------------------------
(* schemas.py: Car, Dealer, Lead *)

YearMin == 1900
YearMax == 2100
RatingMax == 5

OptionalStr(v) == IsNone(v) \/ IsStr(v)
IsNumber(v) == IsInt(v) \/ IsNum(v)

CarFields ==
    {"make", "model", "year", "price", "mileage", "fuel_type", "transmission",
     "body_style", "color", "location", "features", "photos", "dealer_id",
     "listed_on", "condition"}
CarRequired == {"make", "model", "year", "price"}

CarDefault(f) ==
    CASE f = "fuel_type" -> Str("Gasoline")
      [] f = "transmission" -> Str("Automatic")
      [] f = "condition" -> Str("Used")
      [] f \in {"features", "photos"} -> List(<<>>)
      [] OTHER -> NONE

\* Car's constraints without the bounds of year and price.
CarFieldValidUnbounded(f, v) ==
    CASE f \in {"make", "model"} -> IsStr(v)
      [] f = "year" -> IsInt(v)
      [] f = "price" -> IsNumber(v)
      [] f = "mileage" -> IsNone(v) \/ (IsInt(v) /\ v.int >= 0)
      [] f = "features" -> IsList(v) /\ \A i \in 1..Len(v.list) : IsStr(v.list[i])
      [] f = "photos" -> IsList(v) /\ \A i \in 1..Len(v.list) : IsUrl(v.list[i])
      [] f = "listed_on" -> IsNone(v) \/ IsDate(v) \/ (IsStr(v) /\ IsIsoDate(v.str))
      [] OTHER -> OptionalStr(v)

\* The value v given for field f of a Car passes the field's constraints.
CarFieldValid(f, v) ==
    CASE f \in {"make", "model"} -> IsStr(v)
      [] f = "year" -> IsInt(v) /\ v.int >= YearMin /\ v.int <= YearMax
      [] f = "price" -> IsNumber(v) /\ AsFloat(v).num >= Float(0, 0).num
      [] f = "mileage" -> IsNone(v) \/ (IsInt(v) /\ v.int >= 0)
      [] f = "features" -> IsList(v) /\ \A i \in 1..Len(v.list) : IsStr(v.list[i])
      [] f = "photos" -> IsList(v) /\ \A i \in 1..Len(v.list) : IsUrl(v.list[i])
      [] f = "listed_on" -> IsNone(v) \/ IsDate(v) \/ (IsStr(v) /\ IsIsoDate(v.str))
      [] OTHER -> OptionalStr(v)

CarValid(body) ==
    /\ CarRequired \subseteq DOMAIN body
    /\ \A f \in DOMAIN body \cap CarFields : CarFieldValid(f, body[f])

CarCoerce(f, v) ==
    IF f = "price" THEN AsFloat(v)
    ELSE IF f = "listed_on" /\ IsStr(v) THEN DateFromIso(v.str)
    ELSE v

\* Car(**body): the instance of a body that passes validation.
Car(body) ==
    [f \in CarFields |-> IF f \in DOMAIN body THEN CarCoerce(f, body[f]) ELSE CarDefault(f)]

DealerFields == {"name", "email", "phone", "city", "state", "rating"}
DealerRequired == {"name", "email"}

DealerDefault(f) == IF f = "rating" THEN Float(4, 5) ELSE NONE

DealerFieldValid(f, v) ==
    CASE f \in {"name", "email"} -> IsStr(v)
      [] f = "rating" ->
            \/ IsNone(v)
            \/ /\ IsNumber(v)
               /\ AsFloat(v).num >= Float(0, 0).num
               /\ AsFloat(v).num <= Float(RatingMax, 0).num
      [] OTHER -> OptionalStr(v)

DealerValid(body) ==
    /\ DealerRequired \subseteq DOMAIN body
    /\ \A f \in DOMAIN body \cap DealerFields : DealerFieldValid(f, body[f])

Dealer(body) ==
    [f \in DealerFields |->
        IF f \in DOMAIN body
        THEN (IF f = "rating" THEN AsFloat(body[f]) ELSE body[f])
        ELSE DealerDefault(f)]

LeadFields == {"car_id", "name", "email", "phone", "message"}
LeadRequired == {"car_id", "name", "email"}

LeadFieldValid(f, v) == IF f \in LeadRequired THEN IsStr(v) ELSE OptionalStr(v)

LeadValid(body) ==
    /\ LeadRequired \subseteq DOMAIN body
    /\ \A f \in DOMAIN body \cap LeadFields : LeadFieldValid(f, body[f])

Lead(body) ==
    [f \in LeadFields |-> IF f \in DOMAIN body THEN body[f] ELSE NONE]

-----------------------------------------------------------------------------
(* seed_cars: the four sample cars *)

Sample1 ==
    Car([
      make |-> Str(<<"T", "e", "s", "l", "a">>),
      model |-> Str(<<"M", "o", "d", "e", "l", " ", "3">>),
      year |-> IntV(2022),
      price |-> Float(32990, 0),
      mileage |-> IntV(12000),
      fuel_type |-> Str("Electric"),
      transmission |-> Str("Automatic"),
      body_style |-> Str("Sedan"),
      color |-> Str("White"),
      location |-> Str("San Francisco, CA"),
      features |-> List(<<Str("Autopilot"), Str("Heated Seats"), Str("Panoramic Roof")>>),
      photos |-> List(<<Url("https://images.unsplash.com/photo-1552519507-da3b142c6e3d")>>)])

Sample2 ==
    Car([
      make |-> Str(<<"B", "M", "W">>),
      model |-> Str(<<"X", "5">>),
      year |-> IntV(2020),
      price |-> Float(38950, 0),
      mileage |-> IntV(24000),
      fuel_type |-> Str("Gasoline"),
      transmission |-> Str("Automatic"),
      body_style |-> Str("SUV"),
      color |-> Str("Black"),
      location |-> Str("New York, NY"),
      features |-> List(<<Str("xDrive AWD"), Str("Leather"), Str("HUD")>>),
      photos |-> List(<<Url("https://images.unsplash.com/photo-1549924231-f129b911e442")>>)])

Sample3 ==
    Car([
      make |-> Str(<<"T", "o", "y", "o", "t", "a">>),
      model |-> Str(<<"C", "a", "m", "r", "y">>),
      year |-> IntV(2019),
      price |-> Float(18990, 0),
      mileage |-> IntV(36000),
      fuel_type |-> Str("Hybrid"),
      transmission |-> Str("Automatic"),
      body_style |-> Str("Sedan"),
      color |-> Str("Blue"),
      location |-> Str("Austin, TX"),
      features |-> List(<<Str("Adaptive Cruise"), Str("Lane Assist")>>),
      photos |-> List(<<Url("https://images.unsplash.com/photo-1503376780353-7e6692767b70")>>)])

Sample4 ==
    Car([
      make |-> Str(<<"A", "u", "d", "i">>),
      model |-> Str(<<"A", "4">>),
      year |-> IntV(2021),
      price |-> Float(29950, 0),
      mileage |-> IntV(18000),
      fuel_type |-> Str("Gasoline"),
      transmission |-> Str("Automatic"),
      body_style |-> Str("Sedan"),
      color |-> Str("Gray"),
      location |-> Str("Seattle, WA"),
      features |-> List(<<Str("Quattro"), Str("Virtual Cockpit")>>),
      photos |-> List(<<Url("https://images.unsplash.com/photo-1511919884226-fd3cad34687c")>>)])

samples == <<Sample1, Sample2, Sample3, Sample4>>

-----------------------------------------------------------------------------
(* The document store and database.create_document, database.get_documents *)

Collections == {"car", "dealer", "lead"}

Min(a, b) == IF a <= b THEN a ELSE b
Take(s, n) == SubSeq(s, 1, Min(n, Len(s)))

\* The document inserted for a record: its fields and the store's identifier.
NewDocument(record, oid) ==
    [f \in DOMAIN record \cup {"_id"} |-> IF f = "_id" THEN oid ELSE record[f]]

\* create_document(kind, record) on the store st = [db, nextOid]: the store
\* with one more document, and the identifier as a str.
create_document(st, kind, record) ==
    [db |-> [st.db EXCEPT ![kind] = Append(@, NewDocument(record, Oid(st.nextOid)))],
     nextOid |-> st.nextOid + 1,
     id |-> Str(ObjectIdStr(Oid(st.nextOid)))]

\* One character of a pattern against one character of the text.
CharMatches(pc, c, options) ==
    \/ pc = "." /\ c # "\n"
    \/ pc # "." /\ (IF "i" \in Range(options) THEN Lower(pc) = Lower(c) ELSE pc = c)

RegexBodyMatches(body, sub, options) ==
    /\ Len(body) = Len(sub)
    /\ \A i \in 1..Len(body) : CharMatches(body[i], sub[i], options)

\* {"$regex": pattern, "$options": options} against the str s, for patterns
\* of literals, ".", a leading "^" and a trailing "$".
RegexSearch(pattern, options, s) ==
    LET aStart == Len(pattern) > 0 /\ pattern[1] = "^"
        aEnd == Len(pattern) > (IF aStart THEN 1 ELSE 0) /\ pattern[Len(pattern)] = "$"
        body == SubSeq(pattern, IF aStart THEN 2 ELSE 1,
                       IF aEnd THEN Len(pattern) - 1 ELSE Len(pattern))
    IN  \E i \in 1..(Len(s) + 1) : \E j \in 0..Len(s) :
            /\ j >= i - 1
            /\ aStart => i = 1
            /\ aEnd => j = Len(s)
            /\ RegexBodyMatches(body, SubSeq(s, i, j), options)

\* One field's constraint of a filter against the field's value.
ConstraintHolds(v, c) ==
    IF "$regex" \in DOMAIN c
    THEN IsStr(v) /\ RegexSearch(c["$regex"], c["$options"], v.str)
    ELSE /\ IsNum(v)
         /\ "$gte" \in DOMAIN c => v.num >= c["$gte"].num
         /\ "$lte" \in DOMAIN c => v.num <= c["$lte"].num

\* The document passes the filter: every constrained field does (logical AND).
Matches(doc, filter) ==
    \A k \in DOMAIN filter : k \in DOMAIN doc /\ ConstraintHolds(doc[k], filter[k])

Matching(docs, filter) ==
    LET Test(d) == Matches(d, filter) IN SelectSeq(docs, Test)

\* get_documents(kind, filter, limit): the raw documents of the collection that
\* pass the filter, in store order, capped at limit.  The contract takes a
\* non-negative limit; what a negative one returns is not stated, so every
\* prefix of the matching documents is possible.
get_documents(d, kind, filter, limit) ==
    LET found == Matching(d[kind], filter)
    IN  IF limit >= 0
        THEN {[docs |-> Take(found, limit)]}
        ELSE {[docs |-> Take(found, n)] : n \in 0..Len(found)}

-----------------------------------------------------------------------------
(* main.py: the handlers *)

DefaultCarLimit == 20
DefaultDealerLimit == 50

StoreError == [error |-> "store operation failed"]
NoResponse == [op |-> "none"]

\* `if make:` of an Optional[str]
Truthy(v) == ~IsNone(v) /\ v.str # <<>>

RegexFilter(s) ==
    ("$regex" :> (<<"^">> \o s \o <<"$">>)) @@ ("$options" :> <<"i">>)

\* price_filter with `if max_price:` in place of `if max_price is not None:`
price_filter_truthy(min_price, max_price) ==
    [k \in (IF ~IsNone(min_price) THEN {"$gte"} ELSE {})
           \cup (IF ~IsNone(max_price) /\ max_price.num # 0 THEN {"$lte"} ELSE {})
        |-> IF k = "$gte" THEN min_price ELSE max_price]

price_filter(min_price, max_price) ==
    [k \in (IF ~IsNone(min_price) THEN {"$gte"} ELSE {})
           \cup (IF ~IsNone(max_price) THEN {"$lte"} ELSE {})
        |-> IF k = "$gte" THEN min_price ELSE max_price]

\* list_cars: the query built from the parameters.
list_cars_query(make, model, min_price, max_price) ==
    [k \in (IF Truthy(make) THEN {"make"} ELSE {})
           \cup (IF Truthy(model) THEN {"model"} ELSE {})
           \cup (IF DOMAIN price_filter(min_price, max_price) # {} THEN {"price"} ELSE {})
        |-> CASE k = "make" -> RegexFilter(make.str)
              [] k = "model" -> RegexFilter(model.str)
              [] OTHER -> price_filter(min_price, max_price)]

\* `d.get("_id")` as a condition
HasId(d) == "_id" \in DOMAIN d /\ ~IsNone(d["_id"])

\* the identifier read from "id", which a raw document does not have
PopIdMissing(d) ==
    [k \in (DOMAIN d \ {"_id"}) \cup {"id"} |-> IF k = "id" THEN NONE ELSE d[k]]

\* d["id"] = str(d.pop("_id")) if d.get("_id") else None
PopId(d) ==
    [k \in (IF HasId(d) THEN DOMAIN d \ {"_id"} ELSE DOMAIN d) \cup {"id"} |->
        IF k = "id"
        THEN (IF HasId(d) THEN Str(ObjectIdStr(d["_id"])) ELSE NONE)
        ELSE d[k]]

\* list_cars.normalize without the conversion of dates
normalize_car_keep_dates(d) == PopId(d)

\* list_cars.normalize
normalize_car(d) ==
    LET p == PopId(d)
    IN  [k \in DOMAIN p |-> IF IsDate(p[k]) THEN isoformat(p[k]) ELSE p[k]]

\* list_dealers.normalize
normalize_dealer(d) == PopId(d)

\* the limit parameter not passed on
CarLimitIgnored(params) == DefaultCarLimit

CarLimit(params) == IF IsNone(params.limit) THEN DefaultCarLimit ELSE params.limit.int
DealerLimit(params) == IF IsNone(params.limit) THEN DefaultDealerLimit ELSE params.limit.int

IsError(out) == "error" \in DOMAIN out

\* list_cars, given what get_documents answered: [docs |-> documents] or StoreError.
list_cars(params, got) ==
    LET query == list_cars_query(params.make, params.model, params.min_price, params.max_price)
    IN  IF IsError(got)
        THEN [op |-> "list_cars", status |-> 500, detail |-> got.error]
        ELSE [op |-> "list_cars", params |-> params, query |-> query,
              status |-> 200, raw |-> got.docs,
              body |-> [i \in 1..Len(got.docs) |-> normalize_car(got.docs[i])]]

list_dealers(params, got) ==
    IF IsError(got)
    THEN [op |-> "list_dealers", status |-> 500, detail |-> got.error]
    ELSE [op |-> "list_dealers", params |-> params,
          status |-> 200, raw |-> got.docs,
          body |-> [i \in 1..Len(got.docs) |-> normalize_dealer(got.docs[i])]]

\* A single-record create endpoint, given the validated record and what
\* create_document answered: its result or StoreError.
create_response(op, request, made) ==
    IF IsError(made)
    THEN [op |-> op, request |-> request, status |-> 500, detail |-> made.error]
    ELSE [op |-> op, request |-> request, status |-> 200, body |-> [id |-> made.id]]

\* The request body fails the schema: HTTP 422 before the handler runs.
schema_violation(op, request) == [op |-> op, request |-> request, status |-> 422]

\* the loop ending one sample early
seed_iteration_short(run, made) ==
    IF IsError(made)
    THEN [status |-> "failed", inserted |-> run.inserted]
    ELSE [status |-> IF Len(run.inserted) + 1 >= Len(samples) - 1 THEN "done" ELSE "running",
          inserted |-> Append(run.inserted, made.id)]

\* seed_cars: one iteration of the loop over samples, given what
\* create_document answered.  run = [status, inserted]
seed_iteration(run, made) ==
    IF IsError(made)
    THEN [status |-> "failed", inserted |-> run.inserted]
    ELSE [status |-> IF Len(run.inserted) + 1 = Len(samples) THEN "done" ELSE "running",
          inserted |-> Append(run.inserted, made.id)]

\* seed_cars: what the request answers when its run ends, NoResponse before.
seed_response(run) ==
    CASE run.status = "done" ->
            [op |-> "seed_cars", status |-> 200,
             body |-> [inserted |-> run.inserted, count |-> Len(run.inserted)]]
      [] run.status = "failed" ->
            [op |-> "seed_cars", status |-> 500, detail |-> StoreError.error]
      [] OTHER -> NoResponse

-----------------------------------------------------------------------------
(* Bounds and the requests the clients send *)

MaxCreates == 2      \* POST /api/cars answered 200 and POST /api/cars/seed, together
MaxPosts == 1        \* POST /api/cars answered 200, beside the dealers
MaxDealers == 1      \* POST /api/dealers requests answered 200
MaxLeads == 2        \* POST /api/leads requests answered 200
MaxSeedCalls == 2    \* POST /api/cars/seed requests running concurrently

tesla == <<"t", "e", "s", "l", "a">>
TeslaModel == <<"T", "e", "s", "l", "a", " ", "M", "o", "d", "e", "l">>

CarBodies ==
    { [make |-> Str(tesla), model |-> Str(<<"3">>), year |-> IntV(YearMin), price |-> IntV(0)],
      [make |-> Str(TeslaModel), model |-> Str(<<"S">>), year |-> IntV(YearMax),
       price |-> Float(25000, 5), mileage |-> NONE, color |-> Str("Red"),
       features |-> List(<<Str("HUD")>>), photos |-> List(<<Url("https://example.com/a.jpg")>>),
       listed_on |-> Str(<<"2", "0", "2", "4", "-", "0", "2", "-", "2", "9">>)],
      [make |-> Str(tesla), model |-> Str(<<"3">>), year |-> IntV(YearMin - 1), price |-> IntV(0)],
      [make |-> Str(tesla), model |-> Str(<<"3">>), year |-> IntV(YearMax + 1), price |-> IntV(0)],
      [make |-> Str(tesla), model |-> Str(<<"3">>), year |-> IntV(2020), price |-> IntV(-1)],
      [make |-> Str(tesla), model |-> Str(<<"3">>), price |-> IntV(0)],
      [make |-> Str(tesla), model |-> Str(<<"3">>), year |-> IntV(2020), price |-> IntV(0),
       listed_on |-> Str(<<"2", "0", "2", "3", "-", "0", "2", "-", "2", "9">>)] }

Params(make, model, min_price, max_price, limit) ==
    [make |-> make, model |-> model, min_price |-> min_price, max_price |-> max_price,
     limit |-> limit]

ListCarsRequests ==
    { Params(NONE, NONE, NONE, NONE, l) : l \in {NONE, IntV(-1), IntV(0), IntV(1), IntV(2)} }
    \cup
    { Params(Str(m), NONE, NONE, NONE, NONE) :
        m \in {tesla, <<"T", ".", "s", "l", "a">>, <<"e", "s", "l">>, <<>>} }
    \cup
    { Params(NONE, Str(<<"m", "o", "d", "e", "l", " ", "3">>), NONE, NONE, NONE),
      Params(Str(tesla), Str(<<"3">>), NONE, Float(20000, 0), IntV(1)),
      Params(NONE, NONE, Float(0, 0), NONE, NONE),
      Params(NONE, NONE, NONE, Float(0, 0), NONE),
      Params(NONE, NONE, Float(20000, 0), Float(30000, 0), NONE),
      Params(NONE, NONE, Float(29950, 0), Float(29950, 0), NONE) }

DealerBodies ==
    { [name |-> Str("A"), email |-> Str("a@b")],
      [name |-> Str("A"), email |-> Str("a@b"), rating |-> NONE],
      [name |-> Str("A"), email |-> Str("a@b"), rating |-> IntV(RatingMax)],
      [name |-> Str("A"), email |-> Str("a@b"), rating |-> Float(0, 0)],
      [name |-> Str("A"), email |-> Str("a@b"), rating |-> Float(RatingMax, 1)],
      [name |-> Str("A"), email |-> Str("a@b"), rating |-> Float(-1, 9)],
      [name |-> Str("A")] }

Hex24(last) ==
    <<"0", "0", "0", "0", "0", "0", "0", "0", "0", "0", "0", "0",
      "0", "0", "0", "0", "0", "0", "0", "0", "0", "0", "0">> \o <<last>>

IdStrings ==
    { Hex24("1"), Hex24("a"), Hex24("A"), Hex24("g"), Hex24(" "),
      SubSeq(Hex24("1"), 2, OidLen), Hex24("1") \o <<"0">>, <<>>,
      <<"n", "o", "t", "-", "a", "n", "-", "i", "d">> }

LeadBodies ==
    { [car_id |-> Str(oid), name |-> Str("B"), email |-> Str("b@c")] :
        oid \in {Hex24("1"), Hex24("g"), <<"n", "o", "t", "-", "a", "n", "-", "i", "d">>} }
    \cup { [name |-> Str("B"), email |-> Str("b@c")] }

ListDealersRequests == { [limit |-> l] : l \in {NONE, IntV(-1), IntV(0), IntV(1)} }

-----------------------------------------------------------------------------
(* The requests, one handler run per step *)

Store == [db |-> db, nextOid |-> nextOid]

Init ==
    /\ db = [c \in Collections |-> <<>>]
    /\ nextOid = 1
    /\ seeds = <<>>
    /\ posted = <<>>
    /\ resp = NoResponse

\* POST /api/cars
CreateCar(allowed) ==
    /\ allowed
    /\ \E body \in CarBodies :
        IF ~CarValid(body)
        THEN /\ resp' = schema_violation("create_car", body)
             /\ UNCHANGED <<db, nextOid, seeds, posted>>
        ELSE \E made \in {create_document(Store, "car", Car(body)), StoreError} :
             /\ resp' = create_response("create_car", body, made)
             /\ IF IsError(made)
                THEN UNCHANGED <<db, nextOid, posted>>
                ELSE /\ db' = made.db
                     /\ nextOid' = made.nextOid
                     /\ posted' = Append(posted, [car |-> Car(body), id |-> made.id])
             /\ UNCHANGED seeds

\* GET /api/cars
ListCars ==
    \E params \in ListCarsRequests :
        \E got \in get_documents(db, "car",
                                 list_cars_query(params.make, params.model,
                                                 params.min_price, params.max_price),
                                 CarLimit(params)) \cup {StoreError} :
            /\ resp' = list_cars(params, got)
            /\ UNCHANGED <<db, nextOid, seeds, posted>>

\* POST /api/dealers
CreateDealer ==
    /\ Len(db["dealer"]) < MaxDealers
    /\ \E body \in DealerBodies :
        IF ~DealerValid(body)
        THEN /\ resp' = schema_violation("create_dealer", body)
             /\ UNCHANGED <<db, nextOid, seeds, posted>>
        ELSE \E made \in {create_document(Store, "dealer", Dealer(body)), StoreError} :
             /\ resp' = create_response("create_dealer", body, made)
             /\ IF IsError(made)
                THEN UNCHANGED <<db, nextOid>>
                ELSE db' = made.db /\ nextOid' = made.nextOid
             /\ UNCHANGED <<seeds, posted>>

\* GET /api/dealers
ListDealers ==
    \E params \in ListDealersRequests :
        \E got \in get_documents(db, "dealer", <<>>, DealerLimit(params)) \cup {StoreError} :
            /\ resp' = list_dealers(params, got)
            /\ UNCHANGED <<db, nextOid, seeds, posted>>

\* The loop of seed_cars from a run on, until it ends or `steps` iterations are
\* done; fails lists the iterations whose create_document fails.
RECURSIVE seed_loop(_, _, _, _)
seed_loop(st, run, steps, fails) ==
    IF steps = 0 \/ run.status # "running"
    THEN [db |-> st.db, nextOid |-> st.nextOid, run |-> run]
    ELSE LET i == Len(run.inserted) + 1
             made == IF i \in fails THEN StoreError
                     ELSE create_document(st, "car", samples[i])
         IN  seed_loop(IF IsError(made) THEN st ELSE [db |-> made.db, nextOid |-> made.nextOid],
                       seed_iteration(run, made), steps - 1, fails)

NewRun == [status |-> "running", inserted |-> <<>>]
FailPoints == {{}} \cup {{i} : i \in 1..Len(samples)}

\* POST /api/cars/seed, run from its start to its response
SeedCars ==
    /\ Len(seeds) + Len(posted) < MaxCreates
    /\ \E fails \in FailPoints :
        LET end == seed_loop(Store, NewRun, Len(samples), fails)
        IN  /\ db' = end.db
            /\ nextOid' = end.nextOid
            /\ seeds' = Append(seeds, end.run)
            /\ resp' = seed_response(end.run)
            /\ UNCHANGED posted

\* POST /api/leads
CreateLead ==
    /\ Len(db["lead"]) < MaxLeads
    /\ \E body \in LeadBodies :
        IF ~LeadValid(body)
        THEN /\ resp' = schema_violation("create_lead", body)
             /\ UNCHANGED <<db, nextOid, seeds, posted>>
        ELSE \E made \in {create_document(Store, "lead", Lead(body)), StoreError} :
             /\ resp' = create_response("create_lead", body, made)
             /\ IF IsError(made)
                THEN UNCHANGED <<db, nextOid>>
                ELSE db' = made.db /\ nextOid' = made.nextOid
             /\ UNCHANGED <<seeds, posted>>

\* validate_object_id applied to a string
ValidateObjectId ==
    /\ \E oid \in IdStrings :
        resp' = [op |-> "validate_object_id", oid |-> oid, result |-> validate_object_id(oid)]
    /\ UNCHANGED <<db, nextOid, seeds, posted>>

-----------------------------------------------------------------------------
(* POST /api/cars/seed requests running concurrently: a step is one request's *)
(* next store operation, with what the handler does up to it and, after the   *)
(* last one, its response.                                                    *)

\* A request arrives and runs to the end of its first create_document.
SeedBegin ==
    /\ Len(seeds) < MaxSeedCalls
    /\ \E fails \in {{}, {1}} :
        LET end == seed_loop(Store, NewRun, 1, fails)
        IN  /\ db' = end.db
            /\ nextOid' = end.nextOid
            /\ seeds' = Append(seeds, end.run)
            /\ resp' = seed_response(end.run)
            /\ UNCHANGED posted

\* A running request's next create_document.
SeedStep ==
    \E r \in 1..Len(seeds) :
        /\ seeds[r].status = "running"
        /\ \E fails \in {{}, {Len(seeds[r].inserted) + 1}} :
            LET end == seed_loop(Store, seeds[r], 1, fails)
            IN  /\ db' = end.db
                /\ nextOid' = end.nextOid
                /\ seeds' = [seeds EXCEPT ![r] = end.run]
                /\ resp' = seed_response(end.run)
                /\ UNCHANGED posted

-----------------------------------------------------------------------------
(* Specifications *)

\* The car endpoints, one request at a time.
Next ==
    \/ CreateCar(Len(seeds) + Len(posted) < MaxCreates)
    \/ ListCars
    \/ SeedCars

Spec == Init /\ [][Next]_vars

\* The listing endpoints of cars and dealers over what the create endpoints stored.
ListingNext ==
    \/ CreateCar(Len(posted) < MaxPosts)
    \/ ListCars
    \/ CreateDealer
    \/ ListDealers

ListingSpec == Init /\ [][ListingNext]_vars

\* The lead endpoint and the identifier check.
LeadNext ==
    \/ CreateLead
    \/ ValidateObjectId

LeadSpec == Init /\ [][LeadNext]_vars

\* Seed requests racing each other.
ConcurrentNext ==
    \/ SeedBegin
    \/ SeedStep

ConcurrentSpec == Init /\ [][ConcurrentNext]_vars

-----------------------------------------------------------------------------
(* Properties *)

LowerStr(s) == [i \in 1..Len(s) |-> Lower(s[i])]
EqualIgnoreCase(a, b) == Len(a) = Len(b) /\ \A i \in 1..Len(a) : Lower(a[i]) = Lower(b[i])

\* The limit a listing request asks for: the parameter, or the endpoint's default.
RequestedLimit(params, default) == IF IsNone(params.limit) THEN default ELSE params.limit.int

Listed(op) == resp.op = op /\ resp.status = 200
Unfiltered(params) ==
    IsNone(params.make) /\ IsNone(params.model) /\ IsNone(params.min_price)
        /\ IsNone(params.max_price)

\* C1 as stated: after POST /api/cars answered identifier i for the car c, an
\* unfiltered GET /api/cars with any limit N >= 1 returns a record whose id is i
\* and whose fields equal the fields of c.
C1_RoundTripAnyLimit ==
    (Listed("list_cars") /\ Unfiltered(resp.params)
        /\ RequestedLimit(resp.params, 20) >= 1) =>
    \A k \in 1..Len(posted) :
        \E i \in 1..Len(resp.body) :
            /\ resp.body[i].id = posted[k].id
            /\ \A f \in CarFields : resp.body[i][f] = posted[k].car[f]

\* C1 as amended: after POST /api/cars answered identifier i for the car c, an
\* unfiltered GET /api/cars answered 200 with a limit N no smaller than the
\* number of stored cars returns a record whose id is i and whose fields equal
\* the fields of c, a date-valued field (listed_on) as its ISO-8601 text.
C1_RoundTrip ==
    (Listed("list_cars") /\ Unfiltered(resp.params)
        /\ RequestedLimit(resp.params, 20) >= Len(db["car"])) =>
    \A k \in 1..Len(posted) :
        \E i \in 1..Len(resp.body) :
            /\ resp.body[i].id = posted[k].id
            /\ \A f \in CarFields :
                IF IsDate(posted[k].car[f])
                THEN /\ IsStr(resp.body[i][f])
                     /\ IsIsoDate(resp.body[i][f].str)
                     /\ DateFromIso(resp.body[i][f].str) = posted[k].car[f]
                ELSE resp.body[i][f] = posted[k].car[f]

\* C1's case: an unfiltered listing of a store of several cars, one of them
\* posted with a listing date.
C1_Witness ==
    /\ Listed("list_cars") /\ Unfiltered(resp.params)
    /\ RequestedLimit(resp.params, 20) >= Len(db["car"])
    /\ Len(db["car"]) > 1
    /\ \E k \in 1..Len(posted) : IsDate(posted[k].car["listed_on"])

\* C2 as stated: a create request one of whose store operations fails leaves
\* no document of its own in the store.
C2_NoPartialSuccess ==
    \A r \in 1..Len(seeds) :
        seeds[r].status = "failed" =>
            \A i \in 1..Len(db["car"]) :
                Str(ObjectIdStr(db["car"][i]["_id"])) \notin Range(seeds[r].inserted)

\* A str parameter that is given; an empty one counts as not given.
C3_Given(v) == ~IsNone(v) /\ v.str # <<>>

\* What C3 says a stored car must satisfy to pass the filters of a request.
C3_Passes(r, params) ==
    /\ C3_Given(params.make) => EqualIgnoreCase(r.make.str, params.make.str)
    /\ C3_Given(params.model) => EqualIgnoreCase(r.model.str, params.model.str)
    /\ ~IsNone(params.min_price) => r.price.num >= params.min_price.num
    /\ ~IsNone(params.max_price) => r.price.num <= params.max_price.num

\* C3 as stated: a stored car is listed exactly when its make and model equal
\* the given make and model ignoring case, as whole strings, and its price is
\* within the given bounds (the limit being no smaller than the store).
C3_ExactMatch ==
    (Listed("list_cars") /\ RequestedLimit(resp.params, 20) >= Len(db["car"])) =>
    \A i \in 1..Len(db["car"]) :
        (\E j \in 1..Len(resp.raw) : resp.raw[j] = db["car"][i])
            <=> C3_Passes(db["car"][i], resp.params)

\* C4: the query holds a price constraint exactly when a bound is given, with
\* $gte the given min_price and $lte the given max_price, 0 included; every
\* listed record is within the given bounds; and with no parameter but a limit
\* no smaller than the store, every stored car is listed.
C4_PriceRange ==
    Listed("list_cars") =>
    LET min == resp.params.min_price
        max == resp.params.max_price
        q == resp.query
    IN  /\ "price" \in DOMAIN q <=> (~IsNone(min) \/ ~IsNone(max))
        /\ "price" \in DOMAIN q =>
            /\ "$gte" \in DOMAIN q["price"] <=> ~IsNone(min)
            /\ "$lte" \in DOMAIN q["price"] <=> ~IsNone(max)
            /\ ~IsNone(min) => q["price"]["$gte"] = min
            /\ ~IsNone(max) => q["price"]["$lte"] = max
        /\ \A i \in 1..Len(resp.body) :
            /\ ~IsNone(min) => resp.body[i].price.num >= min.num
            /\ ~IsNone(max) => resp.body[i].price.num <= max.num
        /\ (Unfiltered(resp.params) /\ RequestedLimit(resp.params, 20) >= Len(db["car"]))
            => Len(resp.body) = Len(db["car"])

\* C4's case: max_price=0 lists the free car of a store that holds dearer ones.
C4_Witness ==
    /\ Listed("list_cars")
    /\ IsNone(resp.params.min_price) /\ resp.params.max_price = Float(0, 0)
    /\ Len(resp.body) = 1
    /\ Len(db["car"]) >= 2

C6_Normalized(rec, raw) ==
    /\ DOMAIN rec = (DOMAIN raw \ {"_id"}) \cup {"id"}
    /\ rec["id"] = Str(ObjectIdStr(raw["_id"]))
    /\ \A f \in DOMAIN raw \ {"_id"} :
        IF IsDate(raw[f])
        THEN IsStr(rec[f]) /\ IsIsoDate(rec[f].str) /\ DateFromIso(rec[f].str) = raw[f]
        ELSE rec[f] = raw[f]

\* C6: each record listed by GET /api/cars and GET /api/dealers is the raw
\* document with _id replaced by id, the identifier's string, every date as its
\* ISO-8601 text and every other field unchanged.
C6_Normalize ==
    (Listed("list_cars") \/ Listed("list_dealers")) =>
        /\ Len(resp.body) = Len(resp.raw)
        /\ \A i \in 1..Len(resp.raw) : C6_Normalized(resp.body[i], resp.raw[i])

\* C6's case: a listed car that was stored with a listing date, a list of
\* features and a photo.
C6_Witness ==
    /\ Listed("list_cars")
    /\ \E i \in 1..Len(resp.raw) :
        /\ IsDate(resp.raw[i]["listed_on"])
        /\ resp.raw[i]["features"] # List(<<>>)
        /\ resp.body[i]["listed_on"] = Str(<<"2", "0", "2", "4", "-", "0", "2", "-", "2", "9">>)

RECURSIVE InsertedBy(_)
\* The number of documents the first n seed requests inserted.
InsertedBy(n) == IF n = 0 THEN 0 ELSE InsertedBy(n - 1) + Len(seeds[n].inserted)

\* C7: the car collection holds what the seed requests and POST /api/cars
\* inserted, nothing removed or merged; stored identifiers are pairwise
\* distinct; a seed request that answered 200 inserted its four identifiers,
\* one document per sample, and no other request inserted them; the response
\* lists them with count = 4.
C7_SeedNoDedup ==
    /\ Len(db["car"]) = InsertedBy(Len(seeds)) + Len(posted)
    /\ \A i, j \in 1..Len(db["car"]) : i # j => db["car"][i]["_id"] # db["car"][j]["_id"]
    /\ \A r \in 1..Len(seeds) :
        seeds[r].status = "done" =>
            /\ Len(seeds[r].inserted) = 4
            /\ \A k \in 1..4 :
                \E i \in 1..Len(db["car"]) :
                    /\ Str(ObjectIdStr(db["car"][i]["_id"])) = seeds[r].inserted[k]
                    /\ \A f \in CarFields : db["car"][i][f] = samples[k][f]
            /\ \A q \in 1..Len(seeds) :
                q # r => Range(seeds[q].inserted) \cap Range(seeds[r].inserted) = {}
    /\ (resp.op = "seed_cars" /\ resp.status = 200) =>
            /\ resp.body.count = 4
            /\ Len(resp.body.inserted) = 4
            /\ \E r \in 1..Len(seeds) :
                seeds[r].status = "done" /\ seeds[r].inserted = resp.body.inserted

\* C7's case: two seed requests that ran interleaved have both answered 200,
\* and the collection holds 8 cars.
C7_Witness ==
    /\ Len(seeds) = 2
    /\ seeds[1].status = "done" /\ seeds[2].status = "done"
    /\ Len(db["car"]) = 8
    /\ db["car"][2]["make"] = samples[1]["make"]
    /\ db["car"][3]["make"] = samples[2]["make"]

\* The request body has no year or price, a year outside 1900..2100 or a
\* negative price.
C8_OutOfBounds(body) ==
    \/ "year" \notin DOMAIN body
    \/ "price" \notin DOMAIN body
    \/ IsInt(body.year) /\ (body.year.int < 1900 \/ body.year.int > 2100)
    \/ IsNumber(body.price) /\ AsFloat(body.price).num < 0

\* C8: POST /api/cars with a year outside 1900..2100 or a negative price
\* answers 422, and every stored car has a year within 1900..2100 and a
\* price >= 0.
C8_CarBounds ==
    /\ (resp.op = "create_car" /\ C8_OutOfBounds(resp.request)) => resp.status = 422
    /\ \A i \in 1..Len(db["car"]) :
        LET c == db["car"][i]
        IN  /\ IsInt(c["year"]) /\ c["year"].int >= 1900 /\ c["year"].int <= 2100
            /\ IsNum(c["price"]) /\ c["price"].num >= 0

\* C8's case: year=1899 answered 422 while the store holds cars.
C8_Witness ==
    /\ resp.op = "create_car" /\ resp.status = 422
    /\ "year" \in DOMAIN resp.request /\ resp.request.year = IntV(1899)
    /\ Len(db["car"]) >= 1

\* 24 hexadecimal characters
C9_Conforms(s) ==
    /\ Len(s) = 24
    /\ \A i \in 1..Len(s) :
        s[i] \in {"0", "1", "2", "3", "4", "5", "6", "7", "8", "9",
                  "a", "b", "c", "d", "e", "f", "A", "B", "C", "D", "E", "F"}

\* C9 as stated: a malformed identifier string never reaches the store, on any
\* path that takes an identifier (POST /api/leads takes car_id).
C9_NeverStored ==
    \A i \in 1..Len(db["lead"]) : C9_Conforms(db["lead"][i]["car_id"].str)

\* C9 as amended: validate_object_id answers HTTP 400 "Invalid id format" for
\* a malformed string and the parsed identifier for a conforming one; no
\* endpoint calls it: POST /api/leads never answers 400 and stores car_id as
\* given.
C9_ValidateObjectId ==
    /\ resp.op = "validate_object_id" =>
        IF C9_Conforms(resp.oid)
        THEN /\ resp.result.ok
             /\ IsOid(resp.result.value)
             /\ \A i \in 1..24 : ObjectIdStr(resp.result.value)[i] = Lower(resp.oid[i])
        ELSE /\ ~resp.result.ok
             /\ resp.result.status = 400
             /\ resp.result.detail = "Invalid id format"
    /\ resp.op = "create_lead" => resp.status \in {200, 422, 500}
    /\ (resp.op = "create_lead" /\ resp.status = 200) =>
        db["lead"][Len(db["lead"])]["car_id"] = resp.request.car_id

\* C9's case: an upper-case identifier is parsed while the store holds a lead
\* with a malformed car_id.
C9_Witness ==
    /\ resp.op = "validate_object_id" /\ resp.oid = Hex24("A") /\ resp.result.ok
    /\ \E i \in 1..Len(db["lead"]) : ~C9_Conforms(db["lead"][i]["car_id"].str)

\* C10 as stated: every stored dealer's rating is a number within [0, 5].
C10_RatingInRange ==
    \A i \in 1..Len(db["dealer"]) :
        LET v == db["dealer"][i]["rating"]
        IN  IsNum(v) /\ v.num >= 0 /\ v.num <= 50

=============================================================================
